---- MODULE Spec2Model ----
(***************************************************************************)
(* A model of etfgrowth.py: the Investment Growth Calculator.              *)
(*                                                                         *)
(* The program computes in Python floats, which are IEEE-754 binary64      *)
(* numbers.  The model keeps that arithmetic: a float is a sign, a 53-bit  *)
(* significand and a binary exponent, and every +, * and / rounds to the   *)
(* nearest float, ties to even, as the hardware does.  The significand is  *)
(* wider than a TLC integer, so it is held as a sequence of 15-bit limbs,  *)
(* least significant first.  Exponent overflow and subnormal numbers are   *)
(* out of the model's range: no value here leaves 2^-200 .. 2^200.         *)
(***************************************************************************)
EXTENDS Integers, Sequences, FiniteSets, TLC

\* F applied to the value of v: names a value that is used more than once.
With(v, F(_)) == F(v)

(***************************************************************************)
(* Natural numbers of any width (the significands and their products).     *)
(***************************************************************************)
LimbBase == 2^15

Limb(a, i) == IF i <= Len(a) THEN a[i] ELSE 0

Rest(a) == IF a = <<>> THEN <<>> ELSE Tail(a)

RECURSIVE NatFromInt(_)
NatFromInt(n) ==
    IF n = 0 THEN <<>> ELSE <<n % LimbBase>> \o NatFromInt(n \div LimbBase)

RECURSIVE NatToInt(_)
NatToInt(a) == IF a = <<>> THEN 0 ELSE a[1] + LimbBase * NatToInt(Tail(a))

RECURSIVE NatNorm(_)
NatNorm(a) ==
    IF a = <<>> THEN a
    ELSE IF a[Len(a)] = 0 THEN NatNorm(SubSeq(a, 1, Len(a) - 1)) ELSE a

RECURSIVE NatAddC(_, _, _)
NatAddC(a, b, c) ==
    IF a = <<>> /\ b = <<>> THEN (IF c = 0 THEN <<>> ELSE <<c>>)
    ELSE LET t == Limb(a, 1) + Limb(b, 1) + c
         IN  <<t % LimbBase>> \o NatAddC(Rest(a), Rest(b), t \div LimbBase)

NatAdd(a, b) == NatAddC(a, b, 0)

\* a - b for a >= b; c is the borrow.
RECURSIVE NatSubC(_, _, _)
NatSubC(a, b, c) ==
    IF a = <<>> THEN <<>>
    ELSE LET t == a[1] - Limb(b, 1) - c
         IN  IF t < 0 THEN <<t + LimbBase>> \o NatSubC(Tail(a), Rest(b), 1)
             ELSE <<t>> \o NatSubC(Tail(a), Rest(b), 0)

NatSub(a, b) == NatNorm(NatSubC(a, b, 0))

\* -1, 0, 1 as a < b, a = b, a > b (both without leading zero limbs).
RECURSIVE NatCmpFrom(_, _, _)
NatCmpFrom(a, b, i) ==
    IF i = 0 THEN 0
    ELSE IF a[i] < b[i] THEN -1
    ELSE IF a[i] > b[i] THEN 1
    ELSE NatCmpFrom(a, b, i - 1)

NatCmp(a, b) ==
    IF Len(a) < Len(b) THEN -1
    ELSE IF Len(a) > Len(b) THEN 1
    ELSE NatCmpFrom(a, b, Len(a))

\* a * d + c for one limb d.
RECURSIVE NatMulSmallC(_, _, _)
NatMulSmallC(a, d, c) ==
    IF a = <<>> THEN (IF c = 0 THEN <<>> ELSE <<c>>)
    ELSE LET t == a[1] * d + c
         IN  <<t % LimbBase>> \o NatMulSmallC(Tail(a), d, t \div LimbBase)

NatMulSmall(a, d) == IF d = 0 THEN <<>> ELSE NatMulSmallC(a, d, 0)

RECURSIVE NatShiftLimbs(_, _)
NatShiftLimbs(a, n) ==
    IF a = <<>> \/ n = 0 THEN a ELSE <<0>> \o NatShiftLimbs(a, n - 1)

RECURSIVE NatMul(_, _)
NatMul(a, b) ==
    IF b = <<>> \/ a = <<>> THEN <<>>
    ELSE NatAdd(NatMulSmall(a, b[1]), NatShiftLimbs(NatMul(a, Tail(b)), 1))

\* Quotient and remainder of a by one limb d > 0.
RECURSIVE NatDivModSmall(_, _)
NatDivModSmall(a, d) ==
    IF a = <<>> THEN [q |-> <<>>, r |-> 0]
    ELSE LET hi == NatDivModSmall(Tail(a), d)
             t  == hi.r * LimbBase + a[1]
         IN  [q |-> IF hi.q = <<>> /\ t \div d = 0 THEN <<>>
                    ELSE <<t \div d>> \o hi.q,
              r |-> t % d]

RECURSIVE IntBitLen(_)
IntBitLen(n) == IF n = 0 THEN 0 ELSE 1 + IntBitLen(n \div 2)

NatBitLen(a) ==
    IF a = <<>> THEN 0 ELSE 15 * (Len(a) - 1) + IntBitLen(a[Len(a)])

NatShl(a, k) == NatShiftLimbs(NatMulSmall(a, 2^(k % 15)), k \div 15)

NatShr(a, k) ==
    IF k \div 15 >= Len(a) THEN <<>>
    ELSE NatDivModSmall(SubSeq(a, (k \div 15) + 1, Len(a)), 2^(k % 15)).q

NatIsOdd(a) == a # <<>> /\ a[1] % 2 = 1

\* The number of trailing zero bits of a > 0.
RECURSIVE IntTrailingZeros(_)
IntTrailingZeros(n) == IF n % 2 = 1 THEN 0 ELSE 1 + IntTrailingZeros(n \div 2)

RECURSIVE NatTrailingZeros(_)
NatTrailingZeros(a) ==
    IF a[1] = 0 THEN 15 + NatTrailingZeros(Tail(a)) ELSE IntTrailingZeros(a[1])

(***************************************************************************)
(* Python floats: IEEE-754 binary64, round to nearest, ties to even.       *)
(* A float is (-1)^sign * man * 2^exp with 2^52 <= man < 2^53, or zero     *)
(* (man = <<>>, exp = 0) with its sign.                                    *)
(***************************************************************************)
MantissaBits == 53

FloatZero(sign) == [sign |-> sign, man |-> <<>>, exp |-> 0]

\* Whether n / 2^d rounds up from its integer part q: c compares the
\* remainder with a half, sticky says that the exact value lies strictly
\* above n (a quotient's remainder was not zero).
RoundsUp(c, sticky, q) == c > 0 \/ (c = 0 /\ (sticky \/ NatIsOdd(q)))

NatIsZero(a) == \A i \in 1..Len(a) : a[i] = 0

\* -1, 0, 1 as a remainder lies below, at or above the half of the divisor
\* 2^(15 * Len(low) + b): the remainder is r * 2^(15 * Len(low)) + low, r < 2^b.
HalfCmp(low, r, b) ==
    IF b > 0
    THEN IF r > 2^(b - 1) THEN 1
         ELSE IF r < 2^(b - 1) THEN -1
         ELSE IF NatIsZero(low) THEN 0 ELSE 1
    ELSE IF low[Len(low)] > 2^14 THEN 1
         ELSE IF low[Len(low)] < 2^14 THEN -1
         ELSE IF NatIsZero(SubSeq(low, 1, Len(low) - 1)) THEN 0 ELSE 1

RoundQuotient(qr, low, b, sticky) ==
    IF RoundsUp(HalfCmp(low, qr.r, b), sticky, qr.q)
    THEN NatAdd(qr.q, <<1>>)
    ELSE qr.q

\* n / 2^d rounded to the nearest integer, ties to even, for d > 0.
RoundShift(n, d, sticky) ==
    IF d \div 15 >= Len(n)
    THEN IF RoundsUp(NatCmp(n, NatShl(<<1>>, d - 1)), sticky, <<>>)
         THEN <<1>>
         ELSE <<>>
    ELSE RoundQuotient(NatDivModSmall(SubSeq(n, (d \div 15) + 1, Len(n)), 2^(d % 15)),
                       SubSeq(n, 1, d \div 15), d % 15, sticky)

\* A rounded significand of MantissaBits bits, or of one more after a carry.
Normalized(sign, q, e) ==
    IF NatBitLen(q) > MantissaBits
    THEN [sign |-> sign, man |-> NatShr(q, 1), exp |-> e + 1]
    ELSE [sign |-> sign, man |-> q, exp |-> e]

\* The float nearest (-1)^sign * n * 2^e.
RoundToFloat(sign, n, e, sticky) ==
    IF n = <<>> THEN FloatZero(sign)
    ELSE With(NatBitLen(n), LAMBDA len :
        IF len <= MantissaBits
        THEN [sign |-> sign,
              man  |-> NatShl(n, MantissaBits - len),
              exp  |-> e - (MantissaBits - len)]
        ELSE Normalized(sign, RoundShift(n, len - MantissaBits, sticky),
                        e + (len - MantissaBits)))

FIsZero(x) == x.man = <<>>

FromInt(n) ==
    RoundToFloat(IF n < 0 THEN 1 ELSE 0, NatFromInt(IF n < 0 THEN -n ELSE n), 0, FALSE)

\* The literal 100.0 of lines 266-311 and the 10^2 that round(x, 2) divides by.
Float100 == FromInt(100)

FNeg(x) == [x EXCEPT !.sign = 1 - x.sign]

\* x * y
FMul(x, y) ==
    LET sign == (x.sign + y.sign) % 2
    IN  IF FIsZero(x) \/ FIsZero(y) THEN FloatZero(sign)
        ELSE RoundToFloat(sign, NatMul(x.man, y.man), x.exp + y.exp, FALSE)

\* a * 2^e with sign sx plus b * 2^e with sign sy, for a and b not zero.
AddAligned(sx, a, sy, b, e) ==
    IF sx = sy THEN RoundToFloat(sx, NatAdd(a, b), e, FALSE)
    ELSE With(NatCmp(a, b), LAMBDA c :
        IF c = 0 THEN FloatZero(0)
        ELSE IF c > 0 THEN RoundToFloat(sx, NatSub(a, b), e, FALSE)
        ELSE RoundToFloat(sy, NatSub(b, a), e, FALSE))

\* x + y
FAdd(x, y) ==
    IF FIsZero(x) /\ FIsZero(y)
    THEN FloatZero(IF x.sign = 1 /\ y.sign = 1 THEN 1 ELSE 0)
    ELSE IF FIsZero(x) THEN y
    ELSE IF FIsZero(y) THEN x
    ELSE With(IF x.exp < y.exp THEN x.exp ELSE y.exp, LAMBDA e :
        AddAligned(x.sign, NatShl(x.man, x.exp - e),
                   y.sign, NatShl(y.man, y.exp - e), e))

\* x / y for a divisor y # 0 whose significand, without its trailing zero
\* bits, fits one limb (100.0 and the powers of ten that parsing divides by).
DivOdd(sign, num, d, e) ==
    With(NatDivModSmall(num, d), LAMBDA qr : RoundToFloat(sign, qr.q, e, qr.r # 0))

FDiv(x, y) ==
    IF FIsZero(x) THEN FloatZero((x.sign + y.sign) % 2)
    ELSE With(NatTrailingZeros(y.man), LAMBDA tz :
        DivOdd((x.sign + y.sign) % 2, NatShl(x.man, 30),
               NatToInt(NatShr(y.man, tz)), x.exp - 30 - (y.exp + tz)))

\* -1, 0, 1 as x < y, x = y, x > y; -0.0 equals 0.0.
MagCmp(x, y) ==
    IF FIsZero(x) /\ FIsZero(y) THEN 0
    ELSE IF FIsZero(x) THEN -1
    ELSE IF FIsZero(y) THEN 1
    ELSE IF x.exp < y.exp THEN -1
    ELSE IF x.exp > y.exp THEN 1
    ELSE NatCmp(x.man, y.man)

FCmp(x, y) ==
    IF FIsZero(x) /\ FIsZero(y) THEN 0
    ELSE IF FIsZero(x) THEN (IF y.sign = 1 THEN 1 ELSE -1)
    ELSE IF FIsZero(y) THEN (IF x.sign = 1 THEN -1 ELSE 1)
    ELSE IF x.sign # y.sign THEN (IF x.sign = 1 THEN -1 ELSE 1)
    ELSE IF x.sign = 0 THEN MagCmp(x, y)
    ELSE MagCmp(y, x)

FEq(x, y) == FCmp(x, y) = 0
FLt(x, y) == FCmp(x, y) < 0
FLe(x, y) == FCmp(x, y) <= 0

\* int(x): x truncated toward zero.
FTrunc(x) ==
    IF FIsZero(x) THEN 0
    ELSE (IF x.sign = 1 THEN -1 ELSE 1)
         * (IF x.exp >= 0 THEN NatToInt(NatShl(x.man, x.exp))
            ELSE NatToInt(NatShr(x.man, -x.exp)))

\* |x| * scale rounded to the nearest integer, ties to even: the digits that
\* a fixed-point rendering of x with log10(scale) decimals shows.
ScaledDigits(x, scale) ==
    IF FIsZero(x) THEN 0
    ELSE IF x.exp >= 0 THEN NatToInt(NatShl(NatMulSmall(x.man, scale), x.exp))
    ELSE NatToInt(RoundShift(NatMulSmall(x.man, scale), -x.exp, FALSE))

\* x with the sign bit set or cleared.
SetSign(x, sign) == [x EXCEPT !.sign = sign]

\* round(x, 2): the float nearest to x's correctly rounded two-decimal value.
Round2(x) == SetSign(FDiv(FromInt(ScaledDigits(x, 100)), Float100), x.sign)

\* f"{x:,.0f}" and f"{x:,.2f}" with "," replaced by " ": the sign and the digits
\* shown (the digit grouping carries no information).
FormatFixed(x, decimals) ==
    [neg |-> x.sign = 1, digits |-> ScaledDigits(x, 10^decimals), decimals |-> decimals]

(***************************************************************************)
(* Text of the entry fields and its conversion (lines 189-207).  A text is *)
(* a sequence of characters.  float() is modelled on the texts that the    *)
(* fields of the model hold: plain decimal numerals (an optional "-",      *)
(* digits, at most one "."; up to nine digits, up to six after the point), *)
(* converted as float() converts them, and texts with other characters or  *)
(* without digits, for which float() raises ValueError.  Python's other    *)
(* numerals (an exponent, inf, nan, "+", "_", blanks around) are not among *)
(* the texts of the model.                                                 *)
(***************************************************************************)
Digits == <<"0", "1", "2", "3", "4", "5", "6", "7", "8", "9">>

IsDigit(c) == \E d \in 1..10 : Digits[d] = c

DigitValue(c) == (CHOOSE d \in 1..10 : Digits[d] = c) - 1

\* str.replace(',', '.')
ReplaceComma(text) == [i \in 1..Len(text) |-> IF text[i] = "," THEN "." ELSE text[i]]

\* The numeral ds as a natural number of any width.
RECURSIVE DecimalNat(_)
DecimalNat(ds) ==
    IF ds = <<>> THEN <<>>
    ELSE NatAdd(NatMulSmall(DecimalNat(SubSeq(ds, 1, Len(ds) - 1)), 10),
                NatFromInt(DigitValue(ds[Len(ds)])))

\* n divided by 5^k, six factors at a time; sticky says that a remainder
\* was dropped.
RECURSIVE DivPow5(_, _)
DivPow5(n, k) ==
    IF k = 0 THEN [q |-> n, sticky |-> FALSE]
    ELSE With(NatDivModSmall(n, 5^(IF k >= 6 THEN 6 ELSE k)), LAMBDA qr :
             With(DivPow5(qr.q, IF k >= 6 THEN k - 6 ELSE 0), LAMBDA d :
                 [q |-> d.q, sticky |-> d.sticky \/ qr.r # 0]))

\* n * 2^-(64 + 4k) / 5^k rounded to a float, for n > 0.
ScaledQuotient(n, k) ==
    With(DivPow5(NatShl(n, 64 + 3 * k), k), LAMBDA d :
        RoundToFloat(0, d.q, -(64 + 4 * k), d.sticky))

\* The float nearest to the numeral ds with k of its digits after the point:
\* float() rounds the decimal number itself, once.
ParseMagnitude(ds, k) ==
    With(DecimalNat(ds), LAMBDA n :
        IF n = <<>> THEN FloatZero(0) ELSE ScaledQuotient(n, k))

ParseParts(neg, body, dots, ds) ==
    IF /\ Cardinality(dots) <= 1
       /\ Len(ds) = Len(body) - Cardinality(dots)
       /\ Len(ds) >= 1
    THEN [ok    |-> TRUE,
          value |-> SetSign(ParseMagnitude(ds, IF dots = {} THEN 0
                                               ELSE Len(body) - (CHOOSE i \in dots : TRUE)),
                            IF neg THEN 1 ELSE 0)]
    ELSE [ok |-> FALSE]

ParseBody(neg, body) ==
    ParseParts(neg, body, {i \in 1..Len(body) : body[i] = "."}, SelectSeq(body, IsDigit))

\* float(s): [ok |-> FALSE] is a ValueError.
PyFloat(s) ==
    IF s # <<>> /\ s[1] = "-" THEN ParseBody(TRUE, Tail(s)) ELSE ParseBody(FALSE, s)

\* _get_float_input: a ValueError naming the field, or the float.
_get_float_input(string_var, label_text) ==
    With(PyFloat(ReplaceComma(string_var)), LAMBDA r :
        IF r.ok THEN [ok |-> TRUE, value |-> r.value]
        ELSE [ok |-> FALSE,
              error |-> <<"Vigane sisend valjal", label_text, "Palun sisesta number.">>])

\* Faulty variant of _get_int_input: the comma is not replaced.
_get_int_input_no_replace(string_var, label_text) ==
    With(PyFloat(string_var), LAMBDA r :
        IF r.ok THEN [ok |-> TRUE, value |-> FTrunc(r.value)]
        ELSE [ok |-> FALSE,
              error |-> <<"Vigane sisend valjal", label_text, "Palun sisesta taisarv.">>])

\* _get_int_input: int(float(text)), so a decimal text is truncated toward zero.
_get_int_input(string_var, label_text) ==
    With(PyFloat(ReplaceComma(string_var)), LAMBDA r :
        IF r.ok THEN [ok |-> TRUE, value |-> FTrunc(r.value)]
        ELSE [ok |-> FALSE,
              error |-> <<"Vigane sisend valjal", label_text, "Palun sisesta taisarv.">>])

(***************************************************************************)
(* Bounds of the model.                                                    *)
(***************************************************************************)
\* The longest investment period a field of the window is given.
MaxPeriod == 2
\* The longest investment period of the single-run specification.
SimMaxPeriod == 3

(***************************************************************************)
(* The program's state.                                                    *)
(***************************************************************************)
VARIABLES
    sv_instrument_name,  \* the entry fields' texts (lines 112-116)
    sv_initial_sum,
    sv_period,
    sv_growth_rate,
    sv_dividend_yield,
    simulation_results,  \* self.simulation_results (line 92)
    btn_save_results,    \* the Save button's state: "disabled" or "normal"
    text_results,        \* what the text area shows
    dialog,              \* the message box the last handler showed, or NoDialog
    csv_file,            \* the file the export writes, or NoFile
    pc,                  \* "idle", or "simulate" inside calculate's for loop
    \* calculate's locals (lines 216-259)
    instrument_name, initial_sum, period_years, growth_rate, dividend_yield,
    results, year, current_value, start_value, cumulative,
    \* history: one earlier completed run, its inputs and its results
    earlier_run

fields == <<sv_instrument_name, sv_initial_sum, sv_period, sv_growth_rate,
            sv_dividend_yield>>
inputs == <<instrument_name, initial_sum, period_years, growth_rate, dividend_yield>>
locals == <<inputs, results, year, current_value, start_value, cumulative>>
vars == <<fields, simulation_results, btn_save_results, text_results, dialog,
          csv_file, pc, locals, earlier_run>>

\* The five reinvestment strategies, by the percentage reinvested.
Strategies == {"100", "75", "50", "25", "0"}

NoDialog == [title |-> "none"]
NoFile == [written |-> FALSE]
NoRun == [run |-> FALSE]
EmptyText == [shown |-> FALSE]

\* The literals 0.75, 0.25, 0.50, 0.0 and 1.0 of lines 282-313.
Float075 == FDiv(FromInt(75), FromInt(100))
Float025 == FDiv(FromInt(25), FromInt(100))
Float050 == FDiv(FromInt(50), FromInt(100))
Float00 == FromInt(0)
Float10 == FromInt(1)

(***************************************************************************)
(* new_calculation (lines 504-512).                                        *)
(***************************************************************************)
\* Faulty variant of ClearedResults: the stored results are kept.
KeptResults == simulation_results

ClearedResults == <<>>

NewCalculationEffect ==
    /\ text_results' = EmptyText
    /\ simulation_results' = ClearedResults
    /\ btn_save_results' = "disabled"

new_calculation ==
    /\ pc = "idle"
    /\ NewCalculationEffect
    /\ dialog' = NoDialog
    /\ UNCHANGED <<fields, csv_file, pc, locals, earlier_run>>

(***************************************************************************)
(* calculate, up to the loop (lines 210-250).                              *)
(***************************************************************************)
\* Faulty variant of RangeError: a period of 0 years passes (< for <=).
RangeErrorZeroPeriod(p_initial_sum, p_period_years, p_growth_rate, p_dividend_yield) ==
    IF FLt(p_initial_sum, FromInt(0))
    THEN <<"Initial Investment Sum cannot be negative.">>
    ELSE IF p_period_years < 0
    THEN <<"Investment Period must be a positive integer.">>
    ELSE IF FLt(p_growth_rate, FromInt(-100))
    THEN <<"Growth Rate cannot be less than -100%.">>
    ELSE IF FLt(p_dividend_yield, FromInt(0))
    THEN <<"Dividend Yield cannot be negative.">>
    ELSE <<>>

\* Basic Validation (lines 224-227): the first failing check's message.
RangeError(p_initial_sum, p_period_years, p_growth_rate, p_dividend_yield) ==
    IF FLt(p_initial_sum, FromInt(0))
    THEN <<"Initial Investment Sum cannot be negative.">>
    ELSE IF p_period_years <= 0
    THEN <<"Investment Period must be a positive integer.">>
    ELSE IF FLt(p_growth_rate, FromInt(-100))
    THEN <<"Growth Rate cannot be less than -100%.">>
    ELSE IF FLt(p_dividend_yield, FromInt(0))
    THEN <<"Dividend Yield cannot be negative.">>
    ELSE <<>>

\* The try block of lines 214-227: the first exception's message, or <<>>.
InputError(a, b, c, d) ==
    IF ~a.ok THEN a.error
    ELSE IF ~b.ok THEN b.error
    ELSE IF ~c.ok THEN c.error
    ELSE IF ~d.ok THEN d.error
    ELSE RangeError(a.value, b.value, c.value, d.value)

\* Lines 239-243: every strategy starts from the initial sum.
InitialValue(p_initial_sum, old) == p_initial_sum

\* Faulty variant of InitialCumulative: the amounts of the run before are kept.
CarriedCumulative(old) == old

\* Lines 246-250: the cumulative amounts start at 0.0.
InitialCumulative(old) == FloatZero(0)

\* Lines 229-250 for the inputs a, b, c, d read and their error e: the error
\* dialog and the return, or the start of the simulation.
Validated(a, b, c, d, e) ==
    IF e # <<>>
    THEN /\ dialog' = [title |-> "Input Error", message |-> e]
         /\ UNCHANGED <<pc, locals>>
    ELSE /\ dialog' = NoDialog
         /\ instrument_name' = sv_instrument_name
         /\ initial_sum' = a.value
         /\ period_years' = b.value
         /\ growth_rate' = c.value
         /\ dividend_yield' = d.value
         /\ results' = <<>>
         /\ current_value' =
                [s \in Strategies |-> InitialValue(a.value, current_value[s])]
         /\ cumulative' = [s \in Strategies |-> InitialCumulative(cumulative[s])]
         /\ year' = 0
         /\ pc' = "simulate"
         /\ UNCHANGED start_value

ReadInputs(a, b, c, d) == Validated(a, b, c, d, InputError(a, b, c, d))

calculate ==
    /\ pc = "idle"
    /\ NewCalculationEffect
    /\ ReadInputs(_get_float_input(sv_initial_sum, "Initial Investment Sum"),
                  _get_int_input(sv_period, "Investment Period"),
                  _get_float_input(sv_growth_rate, "Expected Yearly Growth"),
                  _get_float_input(sv_dividend_yield, "Expected Dividend Yield"))
    /\ UNCHANGED <<fields, csv_file, earlier_run>>

(***************************************************************************)
(* One pass of the for loop (lines 253-367).                               *)
(***************************************************************************)
\* Faulty variant of SplitYear: the reinvested dividend is not added to the
\* end value.
SplitYearGrowthOnly(start, cap_growth, gross_div, reinvested, withdrawn) ==
    [cap_growth |-> cap_growth,
     gross_div  |-> gross_div,
     reinvested |-> reinvested,
     withdrawn  |-> withdrawn,
     gain       |-> FAdd(cap_growth, reinvested),
     end_value  |-> FAdd(start, cap_growth)]

\* One strategy's year from its capital growth and its gross dividend: the
\* dividend split, the gain and the end value (lines 282-285, 292-295, ...).
SplitYear(start, cap_growth, gross_div, reinvested, withdrawn) ==
    With(FAdd(cap_growth, reinvested), LAMBDA gain :
        [cap_growth |-> cap_growth,
         gross_div  |-> gross_div,
         reinvested |-> reinvested,
         withdrawn  |-> withdrawn,
         gain       |-> gain,
         end_value  |-> FAdd(start, gain)])

\* The capital growth and the gross dividend of a strategy's own starting
\* value (lines 280-281, 290-291, ...).
StrategyYear(start, p_growth_rate, p_dividend_yield, reinvest, withdraw) ==
    With(FMul(start, FDiv(p_dividend_yield, Float100)), LAMBDA gross_div :
        SplitYear(start, FMul(start, FDiv(p_growth_rate, Float100)), gross_div,
                  FMul(gross_div, reinvest), FMul(gross_div, withdraw)))

\* Faulty variant of Strategy100: the shares of the 75% block.
Strategy100SplitAs75(start, p_growth_rate, p_dividend_yield) ==
    StrategyYear(start, p_growth_rate, p_dividend_yield, Float075, Float025)

\* Lines 269-275: all of the dividend is reinvested (no multiplication), and
\* nothing is withdrawn.
Strategy100(start, p_growth_rate, p_dividend_yield) ==
    With(FMul(start, FDiv(p_dividend_yield, Float100)), LAMBDA gross_div :
        SplitYear(start, FMul(start, FDiv(p_growth_rate, Float100)), gross_div,
                  gross_div, FloatZero(0)))

\* Faulty variant of Strategy75: the growth and the dividend are taken from
\* the balance of the 100% strategy.
Strategy75OfShared(start, p_growth_rate, p_dividend_yield) ==
    StrategyYear(current_value["100"], p_growth_rate, p_dividend_yield,
                 Float075, Float025)

\* Lines 278-285.
Strategy75(start, p_growth_rate, p_dividend_yield) ==
    StrategyYear(start, p_growth_rate, p_dividend_yield, Float075, Float025)

\* Lines 288-295.
Strategy50(start, p_growth_rate, p_dividend_yield) ==
    StrategyYear(start, p_growth_rate, p_dividend_yield, Float050, Float050)

\* Faulty variant of Strategy25: the growth rate and the dividend yield are
\* swapped.
Strategy25Swapped(start, p_growth_rate, p_dividend_yield) ==
    StrategyYear(start, p_dividend_yield, p_growth_rate, Float025, Float075)

\* Lines 298-305.
Strategy25(start, p_growth_rate, p_dividend_yield) ==
    StrategyYear(start, p_growth_rate, p_dividend_yield, Float025, Float075)

\* Faulty variant of Strategy0: the whole dividend is reinvested.
Strategy0Reinvested(start, p_growth_rate, p_dividend_yield) ==
    StrategyYear(start, p_growth_rate, p_dividend_yield, Float10, Float00)

\* Lines 308-315.
Strategy0(start, p_growth_rate, p_dividend_yield) ==
    StrategyYear(start, p_growth_rate, p_dividend_yield, Float00, Float10)

\* Faulty variant of Accumulate: = for +=.
AccumulateLatest(sum, amount) == amount

\* Lines 320-326: cumulative += this year's amount.
Accumulate(sum, amount) == FAdd(sum, amount)

\* Faulty variant of NextValue: every strategy goes on from the end value of
\* the 100% strategy.
NextValueShared(end_value, end_value_100) == end_value_100

\* Lines 363-367: the end value is the next year's start.
NextValue(end_value, end_value_100) == end_value

\* Faulty variant of YearsLeft: one year too many.
YearsLeftInclusive(p_year, p_period_years) == p_year <= p_period_years

\* Line 253: the loop runs while a year of range(1, period_years + 1) is left.
YearsLeft(p_year, p_period_years) == p_year < p_period_years

\* This year's amount that a strategy accumulates: the gross dividend of the
\* 100% strategy, the withdrawn amount of the others (lines 320-326).
YearAmount(s, s100, s75, s50, s25, s0) ==
    CASE s = "100" -> s100.gross_div
      [] s = "75"  -> s75.withdrawn
      [] s = "50"  -> s50.withdrawn
      [] s = "25"  -> s25.withdrawn
      [] s = "0"   -> s0.withdrawn

EndValueOf(s, s100, s75, s50, s25, s0) ==
    CASE s = "100" -> s100.end_value
      [] s = "75"  -> s75.end_value
      [] s = "50"  -> s50.end_value
      [] s = "25"  -> s25.end_value
      [] s = "0"   -> s0.end_value

\* Lines 331-360.
InvestmentYearResult(p_year, start_value_100, s100, s75, s50, s25, s0, cum) ==
    [Year |-> p_year,
     StartingValue |-> start_value_100,
     CapitalGrowth |-> s100.cap_growth,
     GrossDividend |-> s100.gross_div,
     Gain_100 |-> s100.gain,
     EndValue_100 |-> s100.end_value,
     CumulativeGrossDividend_100 |-> cum["100"],
     Withdrawn_75 |-> s75.withdrawn,
     CumulativeWithdrawn_75 |-> cum["75"],
     Gain_75 |-> s75.gain,
     EndValue_75 |-> s75.end_value,
     Withdrawn_50 |-> s50.withdrawn,
     CumulativeWithdrawn_50 |-> cum["50"],
     Gain_50 |-> s50.gain,
     EndValue_50 |-> s50.end_value,
     Withdrawn_25 |-> s25.withdrawn,
     CumulativeWithdrawn_25 |-> cum["25"],
     Gain_25 |-> s25.gain,
     EndValue_25 |-> s25.end_value,
     Withdrawn_0 |-> s0.withdrawn,
     CumulativeWithdrawn_0 |-> cum["0"],
     Gain_0 |-> s0.gain,
     EndValue_0 |-> s0.end_value]

\* Lines 318-367 for the five strategies' figures of the year.
YearStep(s100, s75, s50, s25, s0, cum) ==
    /\ cumulative' = cum
    /\ results' = Append(results,
           InvestmentYearResult(year + 1, current_value["100"],
                                s100, s75, s50, s25, s0, cum))
    /\ current_value' =
           [s \in Strategies |->
               NextValue(EndValueOf(s, s100, s75, s50, s25, s0), s100.end_value)]

YearFigures(s100, s75, s50, s25, s0) ==
    YearStep(s100, s75, s50, s25, s0,
             [s \in Strategies |->
                 Accumulate(cumulative[s], YearAmount(s, s100, s75, s50, s25, s0))])

SimulateYear ==
    /\ pc = "simulate"
    /\ YearsLeft(year, period_years)
    /\ start_value' = current_value
    /\ YearFigures(Strategy100(current_value["100"], growth_rate, dividend_yield),
                   Strategy75(current_value["75"], growth_rate, dividend_yield),
                   Strategy50(current_value["50"], growth_rate, dividend_yield),
                   Strategy25(current_value["25"], growth_rate, dividend_yield),
                   Strategy0(current_value["0"], growth_rate, dividend_yield))
    /\ year' = year + 1
    /\ UNCHANGED <<fields, simulation_results, btn_save_results, text_results,
                   dialog, csv_file, pc, inputs, earlier_run>>

(***************************************************************************)
(* display_results (lines 388-501).                                        *)
(***************************************************************************)
\* The 23 column headers (lines 398-405).
headers ==
    <<"Year", "Start Value", "Cap Growth", "Gross Div",
      "Gain (100%)", "End Value (100%)", "Cum. Gross Div (100%)",
      "Gain (75%)", "End Value (75%)", "Withdrawn (75%)", "Cum. Withdrawn (75%)",
      "Gain (50%)", "End Value (50%)", "Withdrawn (50%)", "Cum. Withdrawn (50%)",
      "Gain (25%)", "End Value (25%)", "Withdrawn (25%)", "Cum. Withdrawn (25%)",
      "Gain (0%)", "End Value (0%)", "Withdrawn (0%)", "Cum. Withdrawn (0%)">>

\* fmt.format(*args) with fmt's 23 placeholders (line 411): the arguments fill
\* the placeholders in order, and str.format ignores the ones left over.
FormatRow(args) == SubSeq(args, 1, Len(headers))

BlankCell == [blank |-> TRUE]

\* The arguments of a year's row (lines 420-449).
YearRowArgs(r) ==
    <<[int |-> r.Year],
      FormatFixed(r.StartingValue, 0),
      FormatFixed(r.CapitalGrowth, 0),
      FormatFixed(r.GrossDividend, 0),
      FormatFixed(r.Gain_100, 0),
      FormatFixed(r.EndValue_100, 0),
      FormatFixed(r.CumulativeGrossDividend_100, 0),
      FormatFixed(r.Gain_75, 0),
      FormatFixed(r.EndValue_75, 0),
      FormatFixed(r.Withdrawn_75, 0),
      FormatFixed(r.CumulativeWithdrawn_75, 0),
      FormatFixed(r.Gain_50, 0),
      FormatFixed(r.EndValue_50, 0),
      FormatFixed(r.Withdrawn_50, 0),
      FormatFixed(r.CumulativeWithdrawn_50, 0),
      FormatFixed(r.Gain_25, 0),
      FormatFixed(r.EndValue_25, 0),
      FormatFixed(r.Withdrawn_25, 0),
      FormatFixed(r.CumulativeWithdrawn_25, 0),
      FormatFixed(r.Gain_0, 0),
      FormatFixed(r.EndValue_0, 0),
      FormatFixed(r.Withdrawn_0, 0),
      FormatFixed(r.CumulativeWithdrawn_0, 0)>>

\* The arguments of the summary row (lines 456-485): the label, four empty
\* strings, then the last year's figures.
SummaryRowArgs(last_year, p_period_years) ==
    <<[label |-> "End", years |-> p_period_years],
      BlankCell,
      BlankCell,
      BlankCell,
      BlankCell,
      FormatFixed(last_year.Gain_100, 0),
      FormatFixed(last_year.EndValue_100, 0),
      FormatFixed(last_year.CumulativeGrossDividend_100, 0),
      FormatFixed(last_year.Gain_75, 0),
      FormatFixed(last_year.EndValue_75, 0),
      FormatFixed(last_year.Withdrawn_75, 0),
      FormatFixed(last_year.CumulativeWithdrawn_75, 0),
      FormatFixed(last_year.Gain_50, 0),
      FormatFixed(last_year.EndValue_50, 0),
      FormatFixed(last_year.Withdrawn_50, 0),
      FormatFixed(last_year.CumulativeWithdrawn_50, 0),
      FormatFixed(last_year.Gain_25, 0),
      FormatFixed(last_year.EndValue_25, 0),
      FormatFixed(last_year.Withdrawn_25, 0),
      FormatFixed(last_year.CumulativeWithdrawn_25, 0),
      FormatFixed(last_year.Gain_0, 0),
      FormatFixed(last_year.EndValue_0, 0),
      FormatFixed(last_year.Withdrawn_0, 0),
      FormatFixed(last_year.CumulativeWithdrawn_0, 0)>>

\* The "Total Cumulative Amounts Over Period" lines (lines 488-494).
TotalLines(last_year) ==
    <<FormatFixed(last_year.CumulativeGrossDividend_100, 2),
      FormatFixed(last_year.CumulativeWithdrawn_75, 2),
      FormatFixed(last_year.CumulativeWithdrawn_50, 2),
      FormatFixed(last_year.CumulativeWithdrawn_25, 2),
      FormatFixed(last_year.CumulativeWithdrawn_0, 2)>>

display_results(p_instrument_name, p_initial_sum, p_period_years, p_growth_rate, p_dividend_yield, p_results) ==
    [shown           |-> TRUE,
     instrument_name |-> p_instrument_name,
     initial_sum     |-> FormatFixed(p_initial_sum, 2),
     period_years    |-> p_period_years,
     growth_rate     |-> FormatFixed(p_growth_rate, 2),
     dividend_yield  |-> FormatFixed(p_dividend_yield, 2),
     header          |-> FormatRow(headers),
     rows            |-> [i \in 1..Len(p_results) |-> FormatRow(YearRowArgs(p_results[i]))],
     summary         |-> IF p_results = <<>> THEN <<>>
                         ELSE FormatRow(SummaryRowArgs(p_results[Len(p_results)],
                                                       p_period_years)),
     totals          |-> IF p_results = <<>> THEN <<>>
                         ELSE TotalLines(p_results[Len(p_results)]),
     saved_notes     |-> 0]

(***************************************************************************)
(* calculate, after the loop (lines 374-385).                              *)
(***************************************************************************)
\* The run that ends: its instrument name, its four numbers and its records.
\* earlier_run is a history variable: it remembers one earlier run, any.
ThisRun ==
    [run     |-> TRUE,
     name    |-> instrument_name,
     inputs  |-> <<initial_sum, period_years, growth_rate, dividend_yield>>,
     results |-> results]

Finish ==
    /\ pc = "simulate"
    /\ ~YearsLeft(year, period_years)
    /\ simulation_results' = results
    /\ text_results' = display_results(instrument_name, initial_sum, period_years,
                                       growth_rate, dividend_yield, results)
    /\ btn_save_results' = "normal"
    /\ pc' = "idle"
    /\ earlier_run' \in {earlier_run, ThisRun}
    /\ UNCHANGED <<fields, dialog, csv_file, locals>>

(***************************************************************************)
(* save_results_ui (lines 514-608).                                        *)
(***************************************************************************)
\* The dataclass's field names, in order (lines 33-69, line 539).
fieldnames ==
    <<"Year", "StartingValue", "CapitalGrowth", "GrossDividend",
      "Gain_100", "EndValue_100", "CumulativeGrossDividend_100",
      "Withdrawn_75", "CumulativeWithdrawn_75", "Gain_75", "EndValue_75",
      "Withdrawn_50", "CumulativeWithdrawn_50", "Gain_50", "EndValue_50",
      "Withdrawn_25", "CumulativeWithdrawn_25", "Gain_25", "EndValue_25",
      "Withdrawn_0", "CumulativeWithdrawn_0", "Gain_0", "EndValue_0">>

\* Lines 553-557: every numeric value of the row rounded to 2 decimals (round
\* leaves the integer Year as it is).
RoundedRow(row_data) ==
    [k \in DOMAIN row_data |->
        IF k = "Year" THEN row_data[k] ELSE Round2(row_data[k])]

\* Faulty variant of summary_fields_to_copy: only the end values and the
\* cumulative amounts, without the fields added "for context".
SummaryKeyFields ==
    {"EndValue_100", "CumulativeGrossDividend_100",
     "EndValue_75", "CumulativeWithdrawn_75",
     "EndValue_50", "CumulativeWithdrawn_50",
     "EndValue_25", "CumulativeWithdrawn_25",
     "EndValue_0", "CumulativeWithdrawn_0"}

\* Lines 570-583.
summary_fields_to_copy ==
    {"EndValue_100", "CumulativeGrossDividend_100",
     "EndValue_75", "CumulativeWithdrawn_75",
     "EndValue_50", "CumulativeWithdrawn_50",
     "EndValue_25", "CumulativeWithdrawn_25",
     "EndValue_0", "CumulativeWithdrawn_0",
     "Withdrawn_75", "Withdrawn_50", "Withdrawn_25", "Withdrawn_0",
     "Gain_100", "Gain_75", "Gain_50", "Gain_25", "Gain_0",
     "StartingValue", "CapitalGrowth", "GrossDividend"}

\* Lines 564-591: the label in the Year field, the copied fields rounded, the
\* others empty.
SummaryRow(last_year_results) ==
    [k \in DOMAIN last_year_results |->
        IF k = "Year" THEN [label |-> "Summary", years |-> last_year_results.Year]
        ELSE IF k \in summary_fields_to_copy THEN Round2(last_year_results[k])
        ELSE BlankCell]

\* What lines 547-593 write: the header, a row per year and the summary row.
CsvContent(p_results) ==
    [written |-> TRUE,
     header  |-> fieldnames,
     rows    |-> [i \in 1..Len(p_results) |-> RoundedRow(p_results[i])],
     summary |-> SummaryRow(p_results[Len(p_results)])]

\* The file dialog is cancelled, the file is written, or open() fails before
\* anything is written.
SaveOutcomes == {"cancelled", "written", "error"}

\* The confirmation notes one displayed result takes in the model.
MaxSavedNotes == 1

\* Faulty variant of save_results_ui: the values are rounded in the stored
\* records themselves, not in a copy of each.
SaveRoundingInPlace ==
    /\ pc = "idle"
    /\ btn_save_results = "normal"
    /\ simulation_results # <<>>
    /\ text_results.shown
    /\ text_results.saved_notes < MaxSavedNotes
    /\ csv_file' = CsvContent(simulation_results)
    /\ simulation_results' = csv_file'.rows
    /\ text_results' = [text_results EXCEPT !.saved_notes = @ + 1]
    /\ dialog' = [title |-> "Salvestamine onnestus",
                  message |-> <<"Tulemused salvestati faili">>]
    /\ UNCHANGED <<fields, btn_save_results, pc, locals, earlier_run>>

save_results_ui ==
    /\ pc = "idle"
    /\ btn_save_results = "normal"
    /\ IF simulation_results = <<>>
       THEN /\ dialog' = [title |-> "Salvestamine",
                          message |-> <<"Arvutustulemused puuduvad.">>]
            /\ UNCHANGED <<csv_file, text_results>>
       ELSE \E outcome \in SaveOutcomes :
              CASE outcome = "cancelled" ->
                     /\ dialog' = NoDialog
                     /\ UNCHANGED <<csv_file, text_results>>
                [] outcome = "written" ->
                     /\ text_results.shown
                     /\ text_results.saved_notes < MaxSavedNotes
                     /\ csv_file' = CsvContent(simulation_results)
                     /\ text_results' =
                            [text_results EXCEPT !.saved_notes = @ + 1]
                     /\ dialog' = [title |-> "Salvestamine onnestus",
                                   message |-> <<"Tulemused salvestati faili">>]
                [] outcome = "error" ->
                     /\ dialog' = [title |-> "Salvestamise Viga",
                                   message |-> <<"Salvestamise viga faili">>]
                     /\ UNCHANGED <<csv_file, text_results>>
    /\ UNCHANGED <<fields, simulation_results, btn_save_results, pc, locals,
                   earlier_run>>

(***************************************************************************)
(* The user types into an entry field.                                     *)
(***************************************************************************)
PeriodText(n) == <<Digits[n + 1]>>

InstrumentNames == {"ETF Investment", "Bond Fund"}
PeriodTexts == {PeriodText(n) : n \in 0..MaxPeriod}
DividendYieldTexts == {<<"2">>, <<"a", "b", "c">>}

EditField ==
    /\ pc = "idle"
    /\ \/ \E t \in InstrumentNames :
            sv_instrument_name' = t /\ t # sv_instrument_name
            /\ UNCHANGED <<sv_period, sv_dividend_yield>>
       \/ \E t \in PeriodTexts :
            sv_period' = t /\ t # sv_period
            /\ UNCHANGED <<sv_instrument_name, sv_dividend_yield>>
       \/ \E t \in DividendYieldTexts :
            sv_dividend_yield' = t /\ t # sv_dividend_yield
            /\ UNCHANGED <<sv_instrument_name, sv_period>>
    /\ dialog' = NoDialog
    /\ UNCHANGED <<sv_initial_sum, sv_growth_rate, simulation_results,
                   btn_save_results, text_results, csv_file, pc, locals,
                   earlier_run>>

(***************************************************************************)
(* The window: texts in the fields, nothing calculated yet.                *)
(***************************************************************************)
InitRest ==
    /\ simulation_results = <<>>
    /\ btn_save_results = "disabled"
    /\ text_results = EmptyText
    /\ dialog = NoDialog
    /\ csv_file = NoFile
    /\ pc = "idle"
    /\ instrument_name = "" /\ initial_sum = FloatZero(0) /\ period_years = 0
    /\ growth_rate = FloatZero(0) /\ dividend_yield = FloatZero(0)
    /\ results = <<>> /\ year = 0
    /\ current_value = [s \in Strategies |-> FloatZero(0)]
    /\ start_value = [s \in Strategies |-> FloatZero(0)]
    /\ cumulative = [s \in Strategies |-> FloatZero(0)]
    /\ earlier_run = NoRun

Init ==
    /\ sv_instrument_name \in InstrumentNames
    /\ sv_initial_sum = <<"1", "0", "0", "0", "0">>
    /\ sv_period \in PeriodTexts
    /\ sv_growth_rate = <<"7">>
    /\ sv_dividend_yield \in DividendYieldTexts
    /\ InitRest

Next ==
    \/ EditField
    \/ calculate
    \/ SimulateYear
    \/ Finish
    \/ new_calculation
    \/ save_results_ui

Spec == Init /\ [][Next]_vars

(***************************************************************************)
(* One window, one set of texts, calculate pressed again and again: the    *)
(* simulation over a wider range of inputs.                                *)
(***************************************************************************)
SimInitialSumTexts ==
    {<<"1", "0", "0", "0", "0">>, <<"0">>, <<"1">>, <<"1", "5", "0">>,
     <<"1", "2", ",", "5">>, <<"-", "1">>, <<"a", "b", "c">>,
     <<"4", ".", "7", "6", "1", "9", "0", "4", "7", "6", "1", "9", "0", "4", "7", "6", "1">>}
SimPeriodTexts ==
    {PeriodText(n) : n \in 0..SimMaxPeriod}
        \cup {<<"1", ",", "9">>, <<"1", ".", "9">>, <<"0", ",", "5">>,
              <<"-", "1">>, <<"-", "0", ".", "5">>, <<>>}
SimGrowthRateTexts ==
    {<<"7">>, <<"0">>, <<"-", "5", "0">>, <<"-", "1", "0", "0">>,
     <<"-", "1", "0", "1">>, <<"2", ".", "5">>, <<"7", ".", "x">>, <<"-", "7", "0">>}
SimDividendYieldTexts ==
    {<<"2">>, <<"0">>, <<"3">>, <<"-", "1">>, <<"1", ".", "2", ".", "3">>,
     <<"0", ".", "0", "0", "0", "0", "0", "0", "0", "0", "0", "0", "0", "0", "0", "0", "6">>}

SimInit ==
    /\ sv_instrument_name = "ETF Investment"
    /\ sv_initial_sum \in SimInitialSumTexts
    /\ sv_period \in SimPeriodTexts
    /\ sv_growth_rate \in SimGrowthRateTexts
    /\ sv_dividend_yield \in SimDividendYieldTexts
    /\ InitRest

SimNext ==
    \/ calculate
    \/ SimulateYear
    \/ Finish

SpecSim == SimInit /\ [][SimNext]_vars

(***************************************************************************)
(* The window with its texts left as they are: calculating, clearing and   *)
(* saving.                                                                 *)
(***************************************************************************)
SaveNext ==
    \/ calculate
    \/ SimulateYear
    \/ Finish
    \/ new_calculation
    \/ save_results_ui

SpecSave == Init /\ [][SaveNext]_vars

(***************************************************************************)
(* Properties.  A record's figure of a strategy, and the strategy's        *)
(* reinvested share of the dividend.                                       *)
(***************************************************************************)
RecEndValue(r, s) ==
    CASE s = "100" -> r.EndValue_100
      [] s = "75"  -> r.EndValue_75
      [] s = "50"  -> r.EndValue_50
      [] s = "25"  -> r.EndValue_25
      [] s = "0"   -> r.EndValue_0

RecGain(r, s) ==
    CASE s = "100" -> r.Gain_100
      [] s = "75"  -> r.Gain_75
      [] s = "50"  -> r.Gain_50
      [] s = "25"  -> r.Gain_25
      [] s = "0"   -> r.Gain_0

\* Nothing is withdrawn from the 100% strategy.
RecWithdrawn(r, s) ==
    CASE s = "100" -> FloatZero(0)
      [] s = "75"  -> r.Withdrawn_75
      [] s = "50"  -> r.Withdrawn_50
      [] s = "25"  -> r.Withdrawn_25
      [] s = "0"   -> r.Withdrawn_0

RecCumulative(r, s) ==
    CASE s = "100" -> r.CumulativeGrossDividend_100
      [] s = "75"  -> r.CumulativeWithdrawn_75
      [] s = "50"  -> r.CumulativeWithdrawn_50
      [] s = "25"  -> r.CumulativeWithdrawn_25
      [] s = "0"   -> r.CumulativeWithdrawn_0

Ratio(s) ==
    CASE s = "100" -> Float10
      [] s = "75"  -> Float075
      [] s = "50"  -> Float050
      [] s = "25"  -> Float025
      [] s = "0"   -> Float00

FSub(x, y) == FAdd(x, FNeg(y))
FAbs(x) == SetSign(x, 0)

\* The record of the year just simulated.
LastRecord == results[Len(results)]

\* C1: in every simulated year and for every ratio, the record's end value is
\* the ratio's own starting balance of the year plus the record's gain.
C1_EndValueIsStartPlusGain ==
    results # <<>> =>
        \A s \in Strategies :
            FEq(RecEndValue(LastRecord, s),
                FAdd(start_value[s], RecGain(LastRecord, s)))

\* A second year with a dividend, where the balances of the ratios differ.
C1_Witness ==
    /\ Len(results) = 2
    /\ ~FIsZero(results[2].GrossDividend)
    /\ ~FEq(start_value["100"], start_value["0"])

\* The capital growth and the gross dividend of a ratio's own starting balance
\* of the year just simulated.
OwnCapitalGrowth(s) == FMul(start_value[s], FDiv(growth_rate, Float100))
OwnGrossDividend(s) == FMul(start_value[s], FDiv(dividend_yield, Float100))

\* Gain_r = capitalGrowth_r + grossDividend_r * r and, for r # 100%,
\* Withdrawn_r = grossDividend_r * (1 - r); the record's CapitalGrowth and
\* GrossDividend are those of the 100% ratio.
GainAndWithdrawnOfOwnBalance(s) ==
    /\ FEq(RecGain(LastRecord, s),
           FAdd(OwnCapitalGrowth(s), FMul(OwnGrossDividend(s), Ratio(s))))
    /\ s # "100" =>
           FEq(RecWithdrawn(LastRecord, s),
               FMul(OwnGrossDividend(s), FSub(Float10, Ratio(s))))
    /\ s = "100" =>
           /\ FEq(LastRecord.CapitalGrowth, OwnCapitalGrowth(s))
           /\ FEq(LastRecord.GrossDividend, OwnGrossDividend(s))

GainPlusWithdrawn(s) == FAdd(RecGain(LastRecord, s), RecWithdrawn(LastRecord, s))
GrowthPlusDividend(s) == FAdd(OwnCapitalGrowth(s), OwnGrossDividend(s))

\* 2^-50: eight units in the last place of a float in [1, 2).
RoundingSlack == [sign |-> 0, man |-> NatShl(<<1>>, MantissaBits - 1), exp |-> -102]

\* |Gain_r + Withdrawn_r - (capitalGrowth_r + grossDividend_r)| is at most
\* 2^-50 * (|capitalGrowth_r| + |grossDividend_r|).
SumsAgreeUpToRounding(s) ==
    FLe(FAbs(FSub(GainPlusWithdrawn(s), GrowthPlusDividend(s))),
        FMul(RoundingSlack,
             FAdd(FAbs(OwnCapitalGrowth(s)), FAbs(OwnGrossDividend(s)))))

\* C2 as amended: for every year and ratio, the gain and the withdrawn amount
\* are computed from the ratio's own starting balance; Gain_r + Withdrawn_r
\* equals capitalGrowth_r + grossDividend_r exactly for the ratios 100% and 0%,
\* and up to floating-point rounding for the others.
C2_GainAndWithdrawn ==
    results # <<>> =>
        \A s \in Strategies :
            /\ GainAndWithdrawnOfOwnBalance(s)
            /\ s \in {"100", "0"} => FEq(GainPlusWithdrawn(s), GrowthPlusDividend(s))
            /\ SumsAgreeUpToRounding(s)

\* A second year whose 75% balance differs from the 100% balance, with an
\* amount withdrawn.
C2_Witness ==
    /\ Len(results) = 2
    /\ ~FEq(start_value["75"], start_value["100"])
    /\ ~FIsZero(results[2].Withdrawn_75)

\* C2 as stated: as above, and Gain_r + Withdrawn_r = capitalGrowth_r +
\* grossDividend_r for every ratio.
C2_AsStated ==
    results # <<>> =>
        \A s \in Strategies :
            /\ GainAndWithdrawnOfOwnBalance(s)
            /\ FEq(GainPlusWithdrawn(s), GrowthPlusDividend(s))

\* C3: in year 1 every ratio starts from the initial sum; in every later year
\* it starts from its own end value of the year before, and the record's
\* StartingValue is the EndValue_100 of the record before.
C3_BalancesCarried ==
    results # <<>> =>
        /\ Len(results) = 1 =>
               /\ \A s \in Strategies : FEq(start_value[s], initial_sum)
               /\ FEq(results[1].StartingValue, initial_sum)
        /\ Len(results) > 1 =>
               \A s \in Strategies :
                   FEq(start_value[s], RecEndValue(results[Len(results) - 1], s))
        /\ \A k \in 1..(Len(results) - 1) :
               FEq(results[k + 1].StartingValue, results[k].EndValue_100)

\* A third year, begun from balances that differ between the ratios.
C3_Witness ==
    /\ Len(results) = 3
    /\ ~FEq(results[2].EndValue_100, results[2].EndValue_0)
    /\ ~FEq(results[2].EndValue_100, results[1].EndValue_100)

\* C4: a finished run of N years has stored exactly N records, with the
\* Year fields 1, 2, ..., N in this order; while it runs, the records so far
\* are those of the years 1, 2, ... so far.
C4_OneRecordPerYear ==
    /\ Len(results) = year
    /\ \A i \in 1..Len(results) : results[i].Year = i
    /\ btn_save_results = "normal" =>
           /\ period_years >= 1
           /\ Len(simulation_results) = period_years
           /\ \A i \in 1..period_years : simulation_results[i].Year = i

\* A finished run of the longest period.
C4_Witness ==
    /\ btn_save_results = "normal"
    /\ period_years = SimMaxPeriod
    /\ Len(simulation_results) = SimMaxPeriod

\* C7: from one year's record to the next, none of the five cumulative
\* amounts decreases.
C7_CumulativeNeverDecreases ==
    \A k \in 1..(Len(results) - 1) :
        \A s \in Strategies :
            FLe(RecCumulative(results[k], s), RecCumulative(results[k + 1], s))

\* Three years in which every cumulative amount grows, less each year.
C7_Witness ==
    /\ Len(results) = 3
    /\ \A s \in Strategies :
           /\ FLt(RecCumulative(results[2], s), RecCumulative(results[3], s))
           /\ FLt(FSub(RecCumulative(results[3], s), RecCumulative(results[2], s)),
                  RecCumulative(results[1], s))

\* C8: with a dividend yield of 0 the five end values of every year are the
\* same.
C8_ZeroYieldSameEndValues ==
    FIsZero(dividend_yield) =>
        \A i \in 1..Len(results) :
            \A s \in Strategies :
                FEq(RecEndValue(results[i], s), results[i].EndValue_100)

\* Two years without dividend whose balance changes.
C8_Witness ==
    /\ FIsZero(dividend_yield)
    /\ Len(results) = 2
    /\ ~FIsZero(growth_rate)
    /\ ~FEq(results[2].EndValue_0, results[1].EndValue_0)

\* What calculate reads from the four numeric fields.
InitialSumRead == _get_float_input(sv_initial_sum, "Initial Investment Sum")
PeriodRead == _get_int_input(sv_period, "Investment Period")
GrowthRateRead == _get_float_input(sv_growth_rate, "Expected Yearly Growth")
DividendYieldRead == _get_float_input(sv_dividend_yield, "Expected Dividend Yield")

AllRead == InitialSumRead.ok /\ PeriodRead.ok /\ GrowthRateRead.ok /\ DividendYieldRead.ok

\* initialSum >= 0, periodYears >= 1, growthRatePercent >= -100 and
\* dividendYieldPercent >= 0.
InRange ==
    /\ FLe(FromInt(0), InitialSumRead.value)
    /\ PeriodRead.value >= 1
    /\ FLe(FromInt(-100), GrowthRateRead.value)
    /\ FLe(FromInt(0), DividendYieldRead.value)

\* C5: with numbers in the four fields, calculate shows an error, simulates no
\* year and leaves no result stored when one of them is out of its range, and
\* starts the simulation of the first year when all are inside.
C5_RejectsOutOfRange ==
    [][(calculate /\ AllRead) =>
          IF InRange
          THEN /\ pc' = "simulate"
               /\ dialog' = NoDialog
               /\ year' = 0
               /\ period_years' = PeriodRead.value
               /\ results' = <<>>
          ELSE /\ dialog'.title = "Input Error"
               /\ pc' = "idle"
               /\ simulation_results' = <<>>
               /\ UNCHANGED <<results, year>>]_vars

\* A growth rate below -100 has been rejected, nothing simulated or stored.
C5_Witness ==
    /\ dialog.title = "Input Error"
    /\ dialog.message = <<"Growth Rate cannot be less than -100%.">>
    /\ pc = "idle"
    /\ results = <<>>
    /\ simulation_results = <<>>

\* calculate rejects what the fields hold: a text that is no number, or a
\* number out of its range.
Rejects == ~AllRead \/ ~InRange

\* C6 as amended: a calculate that rejects its inputs leaves the fields, the
\* saved file and the figures of the last simulation as they are, but it
\* clears the stored results and disables Save (calculate begins with
\* new_calculation), whether or not a run had succeeded before.
C6_RejectionClearsResults ==
    [][(calculate /\ Rejects) =>
          /\ dialog'.title = "Input Error"
          /\ simulation_results' = <<>>
          /\ btn_save_results' = "disabled"
          /\ UNCHANGED <<fields, csv_file, locals>>]_vars

\* Inputs have been rejected after a run had finished: its figures are still
\* there, the stored results are not.
C6_Witness ==
    /\ dialog.title = "Input Error"
    /\ results # <<>>
    /\ simulation_results = <<>>
    /\ btn_save_results = "disabled"

\* C6 as stated: a calculate that rejects its inputs leaves the stored results
\* and the state of Save as they were.
C6_AsStated ==
    [][(calculate /\ Rejects) =>
          UNCHANGED <<simulation_results, btn_save_results>>]_vars

\* A run of one year with 10000 at 7% growth and 2% dividend has finished.
TenThousandOneYear ==
    /\ btn_save_results = "normal"
    /\ FEq(initial_sum, FromInt(10000))
    /\ period_years = 1
    /\ FEq(growth_rate, FromInt(7))
    /\ FEq(dividend_yield, FromInt(2))

\* The float that follows x (for a significand that is not the largest).
NextFloatUp(x) == [x EXCEPT !.man = NatAdd(@, <<1>>)]

\* C9 as amended: the record of that run has GrossDividend = 200,
\* EndValue_100 = 10900, Withdrawn_0 = 200 and EndValue_0 = 10700, while
\* CapitalGrowth, Gain_100 and Gain_0 are the floats next above 700, 900 and
\* 700 (700.0000000000001, 900.0000000000001, 700.0000000000001), which round
\* to 700, 900 and 700 at two decimals.
C9_TenThousandOneYear ==
    TenThousandOneYear =>
        /\ Len(simulation_results) = 1
        /\ simulation_results[1].CapitalGrowth = NextFloatUp(FromInt(700))
        /\ simulation_results[1].GrossDividend = FromInt(200)
        /\ simulation_results[1].Gain_100 = NextFloatUp(FromInt(900))
        /\ simulation_results[1].EndValue_100 = FromInt(10900)
        /\ simulation_results[1].Withdrawn_0 = FromInt(200)
        /\ simulation_results[1].Gain_0 = NextFloatUp(FromInt(700))
        /\ simulation_results[1].EndValue_0 = FromInt(10700)
        /\ Round2(simulation_results[1].CapitalGrowth) = FromInt(700)
        /\ Round2(simulation_results[1].Gain_100) = FromInt(900)
        /\ Round2(simulation_results[1].Gain_0) = FromInt(700)

C9_Witness == TenThousandOneYear /\ simulation_results # <<>>

\* C9 as stated: CapitalGrowth = 700, GrossDividend = 200, Gain_100 = 900,
\* EndValue_100 = 10900, Withdrawn_0 = 200, Gain_0 = 700, EndValue_0 = 10700.
C9_AsStated ==
    TenThousandOneYear =>
        /\ Len(simulation_results) = 1
        /\ FEq(simulation_results[1].CapitalGrowth, FromInt(700))
        /\ FEq(simulation_results[1].GrossDividend, FromInt(200))
        /\ FEq(simulation_results[1].Gain_100, FromInt(900))
        /\ FEq(simulation_results[1].EndValue_100, FromInt(10900))
        /\ FEq(simulation_results[1].Withdrawn_0, FromInt(200))
        /\ FEq(simulation_results[1].Gain_0, FromInt(700))
        /\ FEq(simulation_results[1].EndValue_0, FromInt(10700))

\* The four numbers of two runs are the same.
SameNumbers(a, b) ==
    /\ FEq(a[1], b[1])
    /\ a[2] = b[2]
    /\ FEq(a[3], b[3])
    /\ FEq(a[4], b[4])

SameNumbersAsEarlier ==
    /\ earlier_run.run
    /\ btn_save_results = "normal"
    /\ SameNumbers(earlier_run.inputs,
                   <<initial_sum, period_years, growth_rate, dividend_yield>>)

\* C10: a run stores the same records as any earlier run with the same four
\* numbers, whatever was calculated, cleared or saved in between and whatever
\* the instrument names.
C10_SameNumbersSameResults ==
    SameNumbersAsEarlier => simulation_results = earlier_run.results

\* A run with the numbers of an earlier run of another instrument name, after
\* a file has been saved.
C10_Witness ==
    /\ SameNumbersAsEarlier
    /\ earlier_run.name # instrument_name
    /\ csv_file.written
    /\ Len(simulation_results) > 1

\* The columns of the table that show a figure of a ratio, each with the
\* record's field of its name.
RatioColumns ==
    {<<"Gain (100%)", "Gain_100">>,
     <<"End Value (100%)", "EndValue_100">>,
     <<"Cum. Gross Div (100%)", "CumulativeGrossDividend_100">>,
     <<"Gain (75%)", "Gain_75">>,
     <<"End Value (75%)", "EndValue_75">>,
     <<"Withdrawn (75%)", "Withdrawn_75">>,
     <<"Cum. Withdrawn (75%)", "CumulativeWithdrawn_75">>,
     <<"Gain (50%)", "Gain_50">>,
     <<"End Value (50%)", "EndValue_50">>,
     <<"Withdrawn (50%)", "Withdrawn_50">>,
     <<"Cum. Withdrawn (50%)", "CumulativeWithdrawn_50">>,
     <<"Gain (25%)", "Gain_25">>,
     <<"End Value (25%)", "EndValue_25">>,
     <<"Withdrawn (25%)", "Withdrawn_25">>,
     <<"Cum. Withdrawn (25%)", "CumulativeWithdrawn_25">>,
     <<"Gain (0%)", "Gain_0">>,
     <<"End Value (0%)", "EndValue_0">>,
     <<"Withdrawn (0%)", "Withdrawn_0">>,
     <<"Cum. Withdrawn (0%)", "CumulativeWithdrawn_0">>}

\* The place of a column in the table shown.
ColumnIndex(title) == CHOOSE j \in 1..Len(text_results.header) : text_results.header[j] = title

\* The last record of the run shown.
LastShown == simulation_results[Len(simulation_results)]

\* C11: in the table shown after a run, the summary row has under every
\* column of a ratio the last record's figure of that column's name.
C11_SummaryUnderOwnColumns ==
    (text_results.shown /\ simulation_results # <<>>) =>
        \A c \in RatioColumns :
            text_results.summary[ColumnIndex(c[1])] = FormatFixed(LastShown[c[2]], 0)

\* save_results_ui has written the file.
Exported == dialog'.title = "Salvestamine onnestus" /\ save_results_ui

\* C12: an export of the N stored records writes the header, N rows with the
\* years 1, ..., N in this order and a summary row whose Year field is the
\* label "Summary (N Yrs)", N the period of the run, and whose other fields
\* are those of the last year's row.
C12_ExportedRows ==
    [][Exported =>
          /\ csv_file'.written
          /\ csv_file'.header = fieldnames
          /\ Len(csv_file'.rows) = period_years
          /\ Len(csv_file'.rows) = Len(simulation_results)
          /\ \A i \in 1..Len(csv_file'.rows) : csv_file'.rows[i].Year = i
          /\ csv_file'.summary.Year = [label |-> "Summary", years |-> period_years]
          /\ \A i \in 2..Len(fieldnames) :
                 csv_file'.summary[fieldnames[i]]
                     = csv_file'.rows[period_years][fieldnames[i]]]_vars

\* A file of two years whose figures change when rounded to two decimals.
C12_Witness ==
    /\ csv_file.written
    /\ Len(csv_file.rows) = 2
    /\ simulation_results # <<>>
    /\ csv_file.rows[2].Gain_100 # simulation_results[Len(simulation_results)].Gain_100

\* A step of save_results_ui (its first two conjuncts hold of every such
\* step; they spare the evaluation of the export on the other steps).
SaveStep ==
    /\ UNCHANGED <<fields, pc>>
    /\ text_results'.shown
    /\ save_results_ui

\* C13: save_results_ui leaves the stored records as they are, unrounded, and
\* Save enabled, when it writes the file, when the dialog is cancelled and
\* when writing fails.
C13_SaveKeepsResults ==
    [][SaveStep => UNCHANGED <<simulation_results, btn_save_results>>]_vars

\* A file has been written whose rounded figures differ from the stored ones,
\* which are still those of the run.
C13_Witness ==
    /\ dialog.title = "Salvestamine onnestus"
    /\ csv_file.written
    /\ btn_save_results = "normal"
    /\ simulation_results = results
    /\ csv_file.rows[1].Gain_100 # simulation_results[1].Gain_100

\* The shared columns of a record are those of the 100% ratio.
SharedColumnsOf100(r) ==
    /\ FEq(r.CapitalGrowth, FMul(r.StartingValue, FDiv(growth_rate, Float100)))
    /\ FEq(r.GrossDividend, FMul(r.StartingValue, FDiv(dividend_yield, Float100)))
    /\ FEq(r.Gain_100, FAdd(r.CapitalGrowth, r.GrossDividend))
    /\ FEq(r.EndValue_100, FAdd(r.StartingValue, r.Gain_100))

\* C14: in every record StartingValue is the starting balance of the 100%
\* ratio, CapitalGrowth and GrossDividend are its growth and its dividend,
\* Gain_100 = CapitalGrowth + GrossDividend and EndValue_100 = StartingValue +
\* Gain_100.
C14_SharedColumns ==
    /\ \A i \in 1..Len(results) : SharedColumnsOf100(results[i])
    /\ results # <<>> => FEq(LastRecord.StartingValue, start_value["100"])

\* A second year with growth and dividend, in which the 100% balance is not
\* the balance of the 0% ratio.
C14_Witness ==
    /\ Len(results) = 2
    /\ ~FIsZero(results[2].CapitalGrowth)
    /\ ~FIsZero(results[2].GrossDividend)
    /\ ~FEq(results[2].StartingValue, start_value["0"])

FullLoss == FEq(growth_rate, FNeg(Float100))
OwnReinvested(s) == FMul(OwnGrossDividend(s), Ratio(s))
FMax(x, y) == IF FLe(x, y) THEN y ELSE x
\* x * 2^k.
Scaled(x, k) == IF FIsZero(x) THEN x ELSE [x EXCEPT !.exp = @ + k]

\* |EndValue_r - grossDividend_r * r| is at most
\* 2^-52 * max(start_r, grossDividend_r * r).
EndValueIsReinvestedUpToRounding(s) ==
    FLe(FAbs(FSub(RecEndValue(LastRecord, s), OwnReinvested(s))),
        Scaled(FMax(start_value[s], OwnReinvested(s)), -52))

\* The year's capital growth of every ratio is minus its starting balance,
\* the 0% ratio ends every year at 0, and what it withdraws in year 1 is the
\* dividend of the initial sum.
FullLossExactParts ==
    /\ results # <<>> =>
           \A s \in Strategies : FEq(OwnCapitalGrowth(s), FNeg(start_value[s]))
    /\ \A i \in 1..Len(results) : FIsZero(results[i].EndValue_0)
    /\ results # <<>> =>
           FEq(results[1].Withdrawn_0, FMul(initial_sum, FDiv(dividend_yield, Float100)))

\* C15 as amended: with a growth rate of -100 every ratio's capital growth is
\* minus its starting balance; EndValue_0 is 0 in every year and Withdrawn_0
\* of year 1 is initialSum * (dividendYieldPercent / 100), exactly; for the
\* other ratios EndValue_r equals grossDividend_r * r up to floating-point
\* rounding.
C15_FullLoss ==
    FullLoss =>
        /\ FullLossExactParts
        /\ results # <<>> =>
               \A s \in Strategies : EndValueIsReinvestedUpToRounding(s)

\* A second year at -100% with a dividend of a positive balance, in which
\* some ratio's end value is not the float grossDividend_r * r.
C15_Witness ==
    /\ FullLoss
    /\ Len(results) = 2
    /\ ~FIsZero(initial_sum)
    /\ ~FIsZero(dividend_yield)
    /\ ~FIsZero(LastRecord.GrossDividend)
    /\ \E s \in Strategies : ~FEq(RecEndValue(LastRecord, s), OwnReinvested(s))

\* C15 as stated: with a growth rate of -100, EndValue_r = grossDividend_r * r
\* exactly for every ratio, EndValue_0 = 0 and Withdrawn_0 of year 1 is the
\* dividend of the initial sum.
C15_AsStated ==
    FullLoss =>
        /\ FullLossExactParts
        /\ results # <<>> =>
               \A s \in Strategies : FEq(RecEndValue(LastRecord, s), OwnReinvested(s))

\* The value of a short numeral.
RECURSIVE DecimalValue(_)
DecimalValue(ds) ==
    IF ds = <<>> THEN 0
    ELSE 10 * DecimalValue(SubSeq(ds, 1, Len(ds) - 1)) + DigitValue(ds[Len(ds)])

\* The text without its sign, and the place of its decimal separator (one
\* past the end when it has none).
Unsigned(text) == IF text # <<>> /\ text[1] = "-" THEN Tail(text) ELSE text
IsSeparator(c) == c \in {".", ","}
SeparatorAt(body) ==
    IF \E i \in 1..Len(body) : IsSeparator(body[i])
    THEN CHOOSE i \in 1..Len(body) : IsSeparator(body[i]) /\ \A j \in 1..(i - 1) : ~IsSeparator(body[j])
    ELSE Len(body) + 1

\* A decimal numeral: digits with at most one separator, a point or a comma.
IsDecimalNumeral(text) ==
    /\ \E i \in 1..Len(Unsigned(text)) : IsDigit(Unsigned(text)[i])
    /\ \A i \in 1..Len(Unsigned(text)) :
           \/ IsDigit(Unsigned(text)[i])
           \/ i = SeparatorAt(Unsigned(text))

\* The numeral cut off at its separator: the number truncated toward zero.
WholePart(text) ==
    (IF text[1] = "-" THEN -1 ELSE 1)
        * DecimalValue(SubSeq(Unsigned(text), 1, SeparatorAt(Unsigned(text)) - 1))

OthersInRange ==
    /\ InitialSumRead.ok /\ GrowthRateRead.ok /\ DividendYieldRead.ok
    /\ FLe(FromInt(0), InitialSumRead.value)
    /\ FLe(FromInt(-100), GrowthRateRead.value)
    /\ FLe(FromInt(0), DividendYieldRead.value)

\* C16: the period text is read as a decimal number, with a point or a comma,
\* and truncated toward zero before the range check: when the other three
\* inputs are valid, calculate starts a simulation of as many years as the
\* whole part of the text when that is at least 1, and rejects the period
\* otherwise, so also every value strictly between -1 and 1.
C16_PeriodTruncated ==
    [][(calculate /\ IsDecimalNumeral(sv_period) /\ OthersInRange) =>
          IF WholePart(sv_period) >= 1
          THEN /\ pc' = "simulate"
               /\ period_years' = WholePart(sv_period)
               /\ dialog' = NoDialog
          ELSE /\ pc' = "idle"
               /\ dialog'.title = "Input Error"
               /\ dialog'.message = <<"Investment Period must be a positive integer.">>
               /\ simulation_results' = <<>>]_vars

\* The period "1,9" has run as a simulation of one year.
C16_Witness ==
    /\ sv_period = <<"1", ",", "9">>
    /\ pc = "idle"
    /\ period_years = 1
    /\ Len(simulation_results) = 1
    /\ simulation_results = results

\* The stored sequence is all of the result of the calculation that ran
\* last: one record for each of its years, in order.
StoredIsLastRun ==
    /\ pc = "idle"
    /\ simulation_results = results
    /\ Len(simulation_results) = period_years
    /\ \A i \in 1..Len(simulation_results) : simulation_results[i].Year = i

\* C17: after any sequence of calculations, accepted or rejected, clearings
\* and saves, Save is enabled exactly when the stored sequence is non-empty,
\* and a non-empty stored sequence is the complete result of the most recent
\* accepted calculation.
C17_SaveEnabledIffStored ==
    /\ btn_save_results = "normal" <=> simulation_results # <<>>
    /\ simulation_results # <<>> => StoredIsLastRun

\* After a run of two years was saved and a later calculation was rejected:
\* nothing is stored and Save is disabled.
C17_Witness ==
    /\ csv_file.written
    /\ Len(csv_file.rows) = 2
    /\ dialog.title = "Input Error"
    /\ simulation_results = <<>>
    /\ btn_save_results = "disabled"

\* The five end values of a record, from the most reinvested to the least.
EndValuesOrdered(r) ==
    /\ FLe(r.EndValue_75, r.EndValue_100)
    /\ FLe(r.EndValue_50, r.EndValue_75)
    /\ FLe(r.EndValue_25, r.EndValue_50)
    /\ FLe(r.EndValue_0, r.EndValue_25)

\* No end value, no withdrawn amount and no gross dividend of a record is
\* negative.
NothingNegative(r) ==
    /\ FLe(FloatZero(0), r.GrossDividend)
    /\ \A s \in Strategies :
           /\ FLe(FloatZero(0), RecEndValue(r, s))
           /\ FLe(FloatZero(0), RecWithdrawn(r, s))

\* C18 as amended: no end value, withdrawn amount or gross dividend of any
\* year is negative; the end values are ordered by reinvestment ratio in the
\* first year, and in every year when the growth rate is not negative or the
\* dividend yield is zero.
C18_OrderedEndValues ==
    \A i \in 1..Len(results) :
        /\ NothingNegative(results[i])
        /\ (i = 1 \/ FLe(FloatZero(0), growth_rate) \/ FIsZero(dividend_yield))
               => EndValuesOrdered(results[i])

\* A second year of growth and dividend with five different end values.
C18_Witness ==
    /\ Len(results) = 2
    /\ FLt(FloatZero(0), growth_rate)
    /\ FLt(FloatZero(0), results[2].EndValue_0)
    /\ FLt(results[2].EndValue_0, results[2].EndValue_25)
    /\ FLt(results[2].EndValue_25, results[2].EndValue_50)
    /\ FLt(results[2].EndValue_50, results[2].EndValue_75)
    /\ FLt(results[2].EndValue_75, results[2].EndValue_100)
    /\ FLt(FloatZero(0), results[2].Withdrawn_75)

\* C18 as stated: in every year of every valid input the end values are
\* ordered by reinvestment ratio and nothing is negative.
C18_AsStated ==
    \A i \in 1..Len(results) :
        NothingNegative(results[i]) /\ EndValuesOrdered(results[i])
====
